---- MODULE Spec2Model ----
(***************************************************************************)
(* Model of src/app.js (lines 1-482, the complete revision of the script): *)
(* the promise chain that connects to MySQL and Rackspace, lists the       *)
(* posts, migrates every resource of every post and updates the posts.     *)
(*                                                                         *)
(* Text is modelled as a sequence of segments.  A segment is a string that *)
(* the program never splits: the host prefix, a resource path, a piece of  *)
(* other text, or a CDN location.  The resource regular expression, the    *)
(* substring search and the replacement are computed on these sequences.   *)
(*                                                                         *)
(* One action is one callback of the event loop.  Handlers registered on   *)
(* the same promise run in the order of their registration, which is what  *)
(* the guards on RewriteAndUpdate / Collect / Finalize state, and they run *)
(* before the next callback of the network, the disk or the database.      *)
(*                                                                         *)
(* Spec is the whole run.  RewriteSpec is replaceResources on its own: it  *)
(* starts where a post's resources have settled, for every content of at   *)
(* most MaxContentLen segments, and takes the one step that rewrites it.   *)
(*                                                                         *)
(* exit(0) ends the process whatever is still pending: ConnectionClosed    *)
(* does not wait for the UPDATE query of a post whose promise was resolved *)
(* before the query was sent.                                              *)
(***************************************************************************)
EXTENDS Integers, Sequences, FiniteSets, TLC

\* ------------------------------------------------------------------ bounds

\* number of rows of wp_posts returned by allPostsQuery (at most)
NumPosts == 2

\* number of segments of a post_content given to replaceResources alone (at
\* most)
MaxContentLen == 3

\* ------------------------------------------------------------------ text

\* "http://www.macstories.net", the optional first group of rResource
Host == "http://www.macstories.net"

\* the paths rResource recognises in the modelled contents; two of them have
\* a file name with a replacement pattern of String.replace in it
Paths == {"/stuff/a.jpg", "/stuff/b.png", "/stuff/c$$.jpg", "/stuff/d$&.jpg"}

\* other text of a post, matched by no part of rResource
Text == " and "

\* path.basename of a resource path
Basename(p) ==
    CASE p = "/stuff/a.jpg" -> "a.jpg"
      [] p = "/stuff/b.png" -> "b.png"
      [] p = "/stuff/c$$.jpg" -> "c$$.jpg"
      [] p = "/stuff/d$&.jpg" -> "d$&.jpg"
      [] OTHER -> p

\* the same file name as segments, a replacement pattern being a segment of
\* its own
BasenameSegments(p) ==
    CASE p = "/stuff/c$$.jpg" -> <<"c", "$$", ".jpg">>
      [] p = "/stuff/d$&.jpg" -> <<"d", "$&", ".jpg">>
      [] OTHER -> <<Basename(p)>>

\* the post_content values of the modelled rows
\*   no resource;
\*   one resource, twice;
\*   two resources, the second a part of the first
Contents ==
    { <<Text>>,
      <<"/stuff/b.png", Text, "/stuff/b.png">>,
      <<Host, "/stuff/a.jpg", Text, "/stuff/a.jpg">> }

\* the post_content values given to replaceResources alone: every sequence of
\* at most MaxContentLen segments
RewriteContents ==
    UNION { [1..n -> {Host, Text} \cup Paths] : n \in 0..MaxContentLen }

\* the value JavaScript gives a parameter that was not passed
Undefined == "undefined"

\* a promise that is not resolved yet
Pending == [pending |-> TRUE]

\* JavaScript's null, where a resource is expected
Null == <<>>

\* no step of the chain was rejected
NoFatal == "none"

\* ---------------------------------------------------------- pure functions

\* postContent.match(rResource): the non-overlapping matches, leftmost first.
\* A match is the host prefix followed by a path, or a path alone.
RECURSIVE MatchFrom(_, _)
MatchFrom(s, i) ==
    IF i > Len(s) THEN <<>>
    ELSE IF s[i] = Host /\ i + 1 <= Len(s) /\ s[i + 1] \in Paths
         THEN <<SubSeq(s, i, i + 1)>> \o MatchFrom(s, i + 2)
    ELSE IF s[i] \in Paths
         THEN <<SubSeq(s, i, i)>> \o MatchFrom(s, i + 1)
    ELSE MatchFrom(s, i + 1)

\* _.uniq(array, false): the first occurrence of each element, in order
RECURSIVE Uniq(_)
Uniq(a) ==
    IF a = <<>> THEN <<>>
    ELSE LET front == Uniq(SubSeq(a, 1, Len(a) - 1))
             last == a[Len(a)]
         IN IF \E k \in 1..Len(front) : front[k] = last
            THEN front
            ELSE Append(front, last)

\* findResources without _.uniq: every match, also those of a resource that
\* was matched before
findResourcesAll(postContent) == MatchFrom(postContent, 1)

findResources(postContent) == Uniq(MatchFrom(postContent, 1))

\* String.prototype.indexOf on segment sequences: the first position at which
\* sub occurs in s, 0 when it does not occur
IndexOf(s, sub) ==
    LET hits == { i \in 1..(Len(s) - Len(sub) + 1) :
                    SubSeq(s, i, i + Len(sub) - 1) = sub }
    IN IF hits = {} THEN 0
       ELSE CHOOSE i \in hits : \A j \in hits : i <= j

\* String.prototype.replace with a string as its second argument: the text
\* that is put in for the match at position i of s.  The replacement patterns
\* of the string are expanded: $$ is a dollar sign, $& the matched text,
\* $` the text before the match and $' the text after it.
RECURSIVE GetSubstitution(_, _, _, _)
GetSubstitution(new, s, i, old) ==
    IF new = <<>> THEN <<>>
    ELSE (CASE new[1] = "$$" -> <<"$">>
            [] new[1] = "$&" -> old
            [] new[1] = "$`" -> SubSeq(s, 1, i - 1)
            [] new[1] = "$'" -> SubSeq(s, i + Len(old), Len(s))
            [] OTHER -> <<new[1]>>)
         \o GetSubstitution(Tail(new), s, i, old)

\* String.prototype.replace with a string pattern: the first occurrence only
ReplaceFirst(s, old, new) ==
    LET i == IndexOf(s, old)
    IN IF i = 0 THEN s
       ELSE SubSeq(s, 1, i - 1) \o GetSubstitution(new, s, i, old)
            \o SubSeq(s, i + Len(old), Len(s))

\* what stands for the result of a while loop that never ends
Unending == <<"while (newContent.indexOf(oldResource) >= 0)">>

\* n passes of the while loop of replaceResources for one key.  A pass takes
\* out the first occurrence of the key; a loop that ends makes one pass for
\* each occurrence there was when it began, so one that has not ended after
\* as many passes as newContent had segments puts the key back in with every
\* replacement, and never ends.
RECURSIVE ReplacePasses(_, _, _, _)
ReplacePasses(newContent, oldResource, newResource, n) ==
    IF IndexOf(newContent, oldResource) = 0 THEN newContent
    ELSE IF n = 0 THEN Unending
    ELSE ReplacePasses(ReplaceFirst(newContent, oldResource, newResource),
                       oldResource, newResource, n - 1)

\* the while loop of replaceResources for one key
ReplaceWhile(newContent, oldResource, newResource) ==
    ReplacePasses(newContent, oldResource, newResource, Len(newContent))

\* keys.forEach of replaceResources; updates is the map in insertion order,
\* a sequence of <<oldResource, newResource>>
RECURSIVE ReplaceKeys(_, _)
ReplaceKeys(newContent, updates) ==
    IF updates = <<>> \/ newContent = Unending THEN newContent
    ELSE ReplaceKeys(ReplaceWhile(newContent, updates[1][1], updates[1][2]),
                     Tail(updates))

\* replaceResources whose early exit returns no value
replaceResourcesEarlyExitEmpty(postContent, updates) ==
    IF Len(updates) = 0 THEN <<>>
    ELSE ReplaceKeys(postContent, updates)

replaceResources(postContent, updates) ==
    IF Len(updates) = 0 THEN postContent
    ELSE ReplaceKeys(postContent, updates)

\* downloadResource: the absolute URL that is requested
ResourceURL(resource) ==
    IF resource[1] = Host THEN resource ELSE <<Host>> \o resource

\* downloadResource: '/tmp/' + postID + '_' + path.basename(resource)
LocalPath(postID, resource) ==
    "/tmp/" \o ToString(postID) \o "_" \o Basename(resource[Len(resource)])

\* a remote name that is the file name of the resource alone
RemoteNameOfResource(postID, resource) == Basename(resource[Len(resource)])

\* uploadResource: path.basename(localPath), the name of the remote file
RemoteName(postID, resource) ==
    ToString(postID) \o "_" \o Basename(resource[Len(resource)])

\* uploadResource: rackspaceCDNURL + '/' + basename, as segments of new text
NewResource(cdn, postID, resource) ==
    LET name == BasenameSegments(resource[Len(resource)])
    IN <<cdn \o "/" \o ToString(postID) \o "_" \o name[1]>> \o Tail(name)

\* manageResource: the value its promise is resolved with when the download
\* and the upload succeeded
ResourceSuccess(resource, newResource) ==
    [success |-> TRUE, oldResource |-> resource, newResource |-> newResource]

\* manageResource: the value its promise is resolved with when the download
\* or the upload was rejected
ResourceFailure(resource) ==
    [success |-> FALSE, oldResource |-> resource, newResource |-> Null]

\* CountOutcome with found counted for the successful results only
CountOutcomeFoundOnSuccess(st, res) ==
    IF res.success
    THEN [st EXCEPT !.found = @ + 1, !.processed = @ + 1]
    ELSE [st EXCEPT !.failed = @ + 1]

\* managePost: the handler of one resource's result, on the post's stats
CountOutcome(st, res) ==
    IF res.success
    THEN [st EXCEPT !.found = @ + 1, !.processed = @ + 1]
    ELSE [st EXCEPT !.found = @ + 1, !.failed = @ + 1]

\* a handler that enters every result in updates, the failures too
RecordUpdateAlways(upd, res) == Append(upd, <<res.oldResource, res.newResource>>)

\* managePost: the handler of one resource's result, on the updates map
\* (updates[result.oldResource] = result.newResource: a key that is there
\* keeps its place and gets the new value)
RecordUpdate(upd, res) ==
    IF ~res.success THEN upd
    ELSE IF \E i \in DOMAIN upd : upd[i][1] = res.oldResource
         THEN [i \in DOMAIN upd |->
                  IF upd[i][1] = res.oldResource
                  THEN <<res.oldResource, res.newResource>> ELSE upd[i]]
    ELSE Append(upd, <<res.oldResource, res.newResource>>)

\* AddStats with the failed count taken from the wrong field
AddStatsWrongField(g, result) ==
    [resourcesFound |-> g.resourcesFound + result.found,
     resourcesProcessed |-> g.resourcesProcessed + result.processed,
     resourcesFailed |-> g.resourcesFailed + result.processed]

\* processPosts: the handler of one post's result, on the global stats
AddStats(g, result) ==
    [resourcesFound |-> g.resourcesFound + result.found,
     resourcesProcessed |-> g.resourcesProcessed + result.processed,
     resourcesFailed |-> g.resourcesFailed + result.failed]

\* deleteResources(resources): the destroyFile requests it issues, and whether
\* it throws (resources.forEach on a parameter that was not passed)
deleteResources(resources) ==
    IF resources = Undefined
    THEN [threw |-> TRUE, requests |-> {}]
    ELSE [threw |-> FALSE, requests |-> resources]

\* NextStep of a chain whose steps resolve their promise on error too
NextStepErrorIgnored(step, error) ==
    CASE step = "mysqlConnect" -> "rackspaceLogin"
      [] step = "rackspaceLogin" -> "getCDNURL"
      [] step = "getCDNURL" -> "getAllPosts"
      [] step = "getAllPosts" -> "processPosts"

\* the promise chain of line 71: the step after `step`, or handleError when
\* the step's promise was rejected
NextStep(step, error) ==
    IF error THEN "handleError"
    ELSE CASE step = "mysqlConnect" -> "rackspaceLogin"
           [] step = "rackspaceLogin" -> "getCDNURL"
           [] step = "getCDNURL" -> "getAllPosts"
           [] step = "getAllPosts" -> "processPosts"

\* ------------------------------------------------------------------ state

VARIABLES
    pc,               \* position in the promise chain of line 71
    exitCode,         \* -1 while the process runs, then the process's exit code
    fatal,            \* the chain step whose promise was rejected, or NoFatal
    rackspaceCDNURL,  \* container.cdnUri once getCDNURL succeeded
    rows,             \* the rows of wp_posts as listed: rows[ID] is post_content
    db,               \* wp_posts as stored now
    resources,        \* managePost: the unique resources of each post
    rstate,           \* manageResource: where each resource's migration is
    result,           \* manageResource: the value each promise resolved with
    updates,          \* managePost: the updates map of each post
    stats,            \* managePost: the stats of each post
    pstate,           \* managePost: where each post is
    resolved,         \* managePost: whether the post's deferred is resolved
    collected,        \* processPosts: whether the post's stats were added
    gstats,           \* processPosts: stats
    finalStats,       \* the value processPosts' promise resolved with, or Pending
    updateLog,        \* the newContent of every updatePost call, per post
    destroyed,        \* the resources passed to rackspaceClient.destroyFile
    calls,            \* per resource: the request and addFile calls made for it
    tmp               \* the local paths that name a file in /tmp

vars == <<pc, exitCode, fatal, rackspaceCDNURL, rows, db, resources, rstate,
          result, updates, stats, pstate, resolved, collected, gstats,
          finalStats, updateLog, destroyed, calls, tmp>>

PostIDs == 1..Len(rows)

ZeroStats == [found |-> 0, processed |-> 0, failed |-> 0]

ZeroGlobal == [resourcesFound |-> 0, resourcesProcessed |-> 0, resourcesFailed |-> 0]

\* the process has not exited
Alive == exitCode = -1

Init ==
    /\ pc = "mysqlConnect"
    /\ exitCode = -1
    /\ fatal = NoFatal
    /\ rackspaceCDNURL = ""
    /\ rows \in UNION { [1..n -> Contents] : n \in 0..NumPosts }
    /\ db = rows
    /\ resources = [p \in PostIDs |-> <<>>]
    /\ rstate = [p \in PostIDs |-> <<>>]
    /\ result = [p \in PostIDs |-> <<>>]
    /\ updates = [p \in PostIDs |-> <<>>]
    /\ stats = [p \in PostIDs |-> ZeroStats]
    /\ pstate = [p \in PostIDs |-> "new"]
    /\ resolved = [p \in PostIDs |-> FALSE]
    /\ collected = [p \in PostIDs |-> FALSE]
    /\ gstats = ZeroGlobal
    /\ finalStats = Pending
    /\ updateLog = [p \in PostIDs |-> <<>>]
    /\ destroyed = {}
    /\ calls = [p \in PostIDs |-> <<>>]
    /\ tmp = {}

\* --------------------------------------------------------- the main chain

\* the callback of mysqlConnection.connect
mysqlConnect(error) ==
    /\ Alive /\ pc = "mysqlConnect"
    /\ pc' = NextStep("mysqlConnect", error)
    /\ fatal' = IF error THEN "mysqlConnect" ELSE fatal
    /\ UNCHANGED <<exitCode, rackspaceCDNURL, rows, db, resources, rstate, result,
                   updates, stats, pstate, resolved, collected, gstats,
                   finalStats, updateLog, destroyed, calls, tmp>>

\* the callback of rackspaceClient.setAuth
rackspaceLogin(error) ==
    /\ Alive /\ pc = "rackspaceLogin"
    /\ pc' = NextStep("rackspaceLogin", error)
    /\ fatal' = IF error THEN "rackspaceLogin" ELSE fatal
    /\ UNCHANGED <<exitCode, rackspaceCDNURL, rows, db, resources, rstate, result,
                   updates, stats, pstate, resolved, collected, gstats,
                   finalStats, updateLog, destroyed, calls, tmp>>

\* the callback of rackspaceClient.getContainer
getCDNURL(error) ==
    /\ Alive /\ pc = "getCDNURL"
    /\ pc' = NextStep("getCDNURL", error)
    /\ fatal' = IF error THEN "getCDNURL" ELSE fatal
    /\ rackspaceCDNURL' = IF error THEN rackspaceCDNURL ELSE "http://cdn"
    /\ UNCHANGED <<exitCode, rows, db, resources, rstate, result,
                   updates, stats, pstate, resolved, collected, gstats,
                   finalStats, updateLog, destroyed, calls, tmp>>

\* the callback of the allPostsQuery query
getAllPosts(error) ==
    /\ Alive /\ pc = "getAllPosts"
    /\ pc' = NextStep("getAllPosts", error)
    /\ fatal' = IF error THEN "getAllPosts" ELSE fatal
    /\ UNCHANGED <<exitCode, rackspaceCDNURL, rows, db, resources, rstate, result,
                   updates, stats, pstate, resolved, collected, gstats,
                   finalStats, updateLog, destroyed, calls, tmp>>

\* handleError: the rejection handler at the end of the chain
handleError ==
    /\ Alive /\ pc = "handleError"
    /\ pc' = "exited"
    /\ exitCode' = 1
    /\ UNCHANGED <<fatal, rackspaceCDNURL, rows, db, resources, rstate, result,
                   updates, stats, pstate, resolved, collected, gstats,
                   finalStats, updateLog, destroyed, calls, tmp>>

\* processPosts(posts): posts.map(managePost) runs managePost on every row in
\* one synchronous step.  managePost finds the resources, resolves its
\* deferred at once when there are none (and goes on: the early exit does not
\* return), and starts one manageResource, hence one download, per resource.
processPosts ==
    /\ Alive /\ pc = "processPosts"
    /\ pc' = "waiting"
    /\ resources' = [p \in PostIDs |-> findResources(rows[p])]
    /\ rstate' = [p \in PostIDs |->
                    [r \in 1..Len(findResources(rows[p])) |-> "downloading"]]
    /\ result' = [p \in PostIDs |->
                    [r \in 1..Len(findResources(rows[p])) |-> Pending]]
    /\ resolved' = [p \in PostIDs |-> Len(findResources(rows[p])) = 0]
    /\ pstate' = [p \in PostIDs |-> "resources"]
    /\ calls' = [p \in PostIDs |->
                    [r \in 1..Len(findResources(rows[p])) |-> [request |-> 1, addFile |-> 0]]]
    /\ tmp' = UNION { { LocalPath(p, findResources(rows[p])[r]) :
                            r \in 1..Len(findResources(rows[p])) } : p \in PostIDs }
    /\ UNCHANGED <<exitCode, fatal, rackspaceCDNURL, rows, db, updates, stats,
                   collected, gstats, finalStats, updateLog, destroyed>>

\* ------------------------------------------------------ promise handlers

\* a join that is resolved as soon as one of the resources' promises is
OneResourceProcessed(p) ==
    /\ Alive /\ pc \in {"waiting", "closeConnection", "ending"}
    /\ pstate[p] = "resources"
    /\ \E r \in DOMAIN rstate[p] : rstate[p][r] = "settled"

\* managePost: Q.all(allResourcesProcessed) is resolved and its handler has
\* not run yet
AllResourcesProcessed(p) ==
    /\ Alive /\ pc \in {"waiting", "closeConnection", "ending"}
    /\ pstate[p] = "resources"
    /\ \A r \in DOMAIN rstate[p] : rstate[p][r] = "settled"

\* processPosts: a post's promise is resolved and the handler of lines
\* 176-182 has not run yet
PostProcessed(p) ==
    /\ Alive /\ pc = "waiting"
    /\ resolved[p] /\ ~collected[p]

\* processPosts: Q.all(allPostsProcessed) is resolved and its handler has not
\* run yet
AllPostsProcessed ==
    /\ Alive /\ pc = "waiting"
    /\ \A p \in PostIDs : collected[p]

\* Q calls the handlers of a resolved promise from process.nextTick: they run
\* before the event loop takes the next callback of the network, the disk or
\* the database
HandlerPending ==
    \/ \E p \in PostIDs : AllResourcesProcessed(p) \/ PostProcessed(p)
    \/ AllPostsProcessed
    \/ (Alive /\ pc = "closeConnection")

\* -------------------------------------------------- one resource of a post

\* manageResource resolves the resource's deferred with res, and the handler
\* that managePost registered on that promise (lines 229-239) runs before the
\* next event: it counts the result and, on success, enters it in updates
Settle(p, r, res) ==
    /\ rstate' = [rstate EXCEPT ![p][r] = "settled"]
    /\ result' = [result EXCEPT ![p][r] = res]
    /\ stats' = [stats EXCEPT ![p] = CountOutcome(@, res)]
    /\ updates' = [updates EXCEPT ![p] = RecordUpdate(@, res)]

\* downloadResource: what the download ends with.
\*   "close"        the write stream closed: the file is saved, the promise is
\*                  resolved and manageResource calls uploadResource, which
\*                  calls rackspaceClient.addFile
\*   "streamError"  the write stream emitted 'error' (both handlers of lines
\*                  335-342 are on the stream: pipe returns its destination):
\*                  the promise is rejected and manageResource resolves with
\*                  a failure; the file that createWriteStream made stays
\*   "requestError" the request emitted 'error' (the fetch failed on the
\*                  network): no handler is registered on the request, the
\*                  event is thrown as an uncaught exception and the process
\*                  dies with a non-zero status
DownloadEvents == {"close", "streamError", "requestError"}

downloadResource(p, r, ev) ==
    /\ Alive /\ pc = "waiting"
    /\ r \in DOMAIN rstate[p] /\ rstate[p][r] = "downloading"
    /\ ~HandlerPending
    /\ CASE ev = "close" ->
              /\ rstate' = [rstate EXCEPT ![p][r] = "uploading"]
              /\ calls' = [calls EXCEPT ![p][r].addFile = @ + 1]
              /\ UNCHANGED <<result, stats, updates, pc, exitCode>>
         [] ev = "streamError" ->
              /\ Settle(p, r, ResourceFailure(resources[p][r]))
              /\ UNCHANGED <<pc, exitCode, calls>>
         [] ev = "requestError" ->
              /\ pc' = "uncaught"
              /\ exitCode' \in {1, 8}
              /\ UNCHANGED <<rstate, result, stats, updates, calls>>
    /\ UNCHANGED <<fatal, rackspaceCDNURL, rows, db, resources, pstate,
                   resolved, collected, gstats, finalStats, updateLog,
                   destroyed, tmp>>

\* uploadResource: the callback of rackspaceClient.addFile, which unlinks the
\* local file whatever the upload ended with
uploadResource(p, r, error) ==
    /\ Alive /\ pc = "waiting"
    /\ r \in DOMAIN rstate[p] /\ rstate[p][r] = "uploading"
    /\ ~HandlerPending
    /\ tmp' = tmp \ {LocalPath(p, resources[p][r])}
    /\ Settle(p, r, IF error THEN ResourceFailure(resources[p][r])
                    ELSE ResourceSuccess(resources[p][r],
                             NewResource(rackspaceCDNURL, p, resources[p][r])))
    /\ UNCHANGED <<pc, exitCode, fatal, rackspaceCDNURL, rows, db, resources,
                   pstate, resolved, collected, gstats, finalStats, updateLog,
                   destroyed, calls>>

\* ------------------------------------------------------------- one post

\* managePost: Q.all(allResourcesProcessed) is resolved (its handlers were
\* registered after those of Settle), replaceResources computes the new
\* content and updatePost sends the UPDATE query.  When the while loop of
\* replaceResources never ends, the process stays in it: no callback and no
\* handler runs any more.
RewriteAndUpdate(p) ==
    LET newContent == replaceResources(rows[p], updates[p])
    IN /\ AllResourcesProcessed(p)
       /\ IF newContent = Unending
          THEN /\ pc' = "replaceResources"
               /\ UNCHANGED <<pstate, updateLog>>
          ELSE /\ pstate' = [pstate EXCEPT ![p] = "updating"]
               /\ updateLog' = [updateLog EXCEPT ![p] = Append(@, newContent)]
               /\ UNCHANGED pc
       /\ UNCHANGED <<exitCode, fatal, rackspaceCDNURL, rows, db, resources,
                      rstate, result, updates, stats, resolved, collected,
                      gstats, finalStats, destroyed, calls, tmp>>

\* managePost: the handler that runs when updatePost was rejected (lines
\* 254-263): deleteResources is called without an argument, and the
\* deferred is resolved only if that call returns
UpdateRejected(p) ==
    LET d == deleteResources(Undefined)
    IN /\ destroyed' = destroyed \cup d.requests
       /\ resolved' = [resolved EXCEPT ![p] = IF d.threw THEN @ ELSE TRUE]
       /\ pstate' = [pstate EXCEPT ![p] = "rejected"]
       /\ UNCHANGED db

\* managePost: the handler that runs when updatePost was resolved (lines
\* 249-252)
UpdateResolved(p) ==
    /\ db' = [db EXCEPT ![p] = updateLog[p][Len(updateLog[p])]]
    /\ resolved' = [resolved EXCEPT ![p] = TRUE]
    /\ pstate' = [pstate EXCEPT ![p] = "updated"]
    /\ UNCHANGED destroyed

\* updatePost: the callback of the UPDATE query
updatePost(p, error) ==
    /\ Alive /\ pc \in {"waiting", "closeConnection", "ending"}
    /\ pstate[p] = "updating"
    /\ ~HandlerPending
    /\ IF error THEN UpdateRejected(p) ELSE UpdateResolved(p)
    /\ UNCHANGED <<pc, exitCode, fatal, rackspaceCDNURL, rows, resources,
                   rstate, result, updates, stats, collected, gstats,
                   finalStats, updateLog, calls, tmp>>

\* ------------------------------------------------------- the coordinator

\* processPosts: the handler registered on each post's promise (lines
\* 176-182); a promise calls it once, however often it is resolved
Collect(p) ==
    /\ PostProcessed(p)
    /\ collected' = [collected EXCEPT ![p] = TRUE]
    /\ gstats' = AddStats(gstats, stats[p])
    /\ UNCHANGED <<pc, exitCode, fatal, rackspaceCDNURL, rows, db, resources,
                   rstate, result, updates, stats, pstate, resolved,
                   finalStats, updateLog, destroyed, calls, tmp>>

\* processPosts: Q.all(allPostsProcessed) is resolved (its handlers were
\* registered after those of Collect) and deferred.resolve(stats) runs
Finalize ==
    /\ AllPostsProcessed
    /\ finalStats' = gstats
    /\ pc' = "closeConnection"
    /\ UNCHANGED <<exitCode, fatal, rackspaceCDNURL, rows, db, resources,
                   rstate, result, updates, stats, pstate, resolved, collected,
                   gstats, updateLog, destroyed, calls, tmp>>

\* closeConnection(stats): mysqlConnection.end is called
closeConnection ==
    /\ Alive /\ pc = "closeConnection"
    /\ pc' = "ending"
    /\ UNCHANGED <<exitCode, fatal, rackspaceCDNURL, rows, db, resources,
                   rstate, result, updates, stats, pstate, resolved, collected,
                   gstats, finalStats, updateLog, destroyed, calls, tmp>>

\* closeConnection: the callback of mysqlConnection.end prints the stats and
\* calls exit(0)
ConnectionClosed ==
    /\ Alive /\ pc = "ending" /\ ~HandlerPending
    /\ pc' = "exited"
    /\ exitCode' = 0
    /\ UNCHANGED <<fatal, rackspaceCDNURL, rows, db, resources, rstate, result,
                   updates, stats, pstate, resolved, collected, gstats,
                   finalStats, updateLog, destroyed, calls, tmp>>

\* ---------------------------------------------------------- specification

\* one step of the program, the downloads ending with one of `events`
NextWith(events) ==
    \/ \E error \in BOOLEAN : mysqlConnect(error)
    \/ \E error \in BOOLEAN : rackspaceLogin(error)
    \/ \E error \in BOOLEAN : getCDNURL(error)
    \/ \E error \in BOOLEAN : getAllPosts(error)
    \/ handleError
    \/ processPosts
    \/ \E p \in PostIDs : \E r \in DOMAIN rstate[p], ev \in events :
          downloadResource(p, r, ev)
    \/ \E p \in PostIDs : \E r \in DOMAIN rstate[p], error \in BOOLEAN :
          uploadResource(p, r, error)
    \/ \E p \in PostIDs : RewriteAndUpdate(p)
    \/ \E p \in PostIDs, error \in BOOLEAN : updatePost(p, error)
    \/ \E p \in PostIDs : Collect(p)
    \/ Finalize
    \/ closeConnection
    \/ ConnectionClosed

Next == NextWith(DownloadEvents)

Spec == Init /\ [][Next]_vars

\* the program when no request fails on the network: every download ends
\* with an event the program has a handler for
HandledNext == NextWith({"close", "streamError"})

\* the resource indexes a post of the modelled contents can have
ResourceSlots == UNION { 1..Len(findResources(c)) : c \in Contents }

\* Every callback that is pending is eventually called, and every handler of
\* a resolved promise eventually runs.  The weak fairness of
\* RewriteAndUpdate(p) is written with its enabling condition,
\* AllResourcesProcessed(p): a step of it ends that condition for good, so
\* WF_vars(RewriteAndUpdate(p)) says that the condition does not hold forever.
Fairness ==
    /\ WF_vars(\E error \in BOOLEAN : mysqlConnect(error))
    /\ WF_vars(\E error \in BOOLEAN : rackspaceLogin(error))
    /\ WF_vars(\E error \in BOOLEAN : getCDNURL(error))
    /\ WF_vars(\E error \in BOOLEAN : getAllPosts(error))
    /\ WF_vars(handleError)
    /\ WF_vars(processPosts)
    /\ \A p \in 1..NumPosts : \A r \in ResourceSlots :
          /\ WF_vars(p \in PostIDs /\ \E ev \in DownloadEvents : downloadResource(p, r, ev))
          /\ WF_vars(p \in PostIDs /\ \E error \in BOOLEAN : uploadResource(p, r, error))
    /\ \A p \in 1..NumPosts :
          /\ []<>~(p \in PostIDs /\ AllResourcesProcessed(p))
          /\ WF_vars(p \in PostIDs /\ \E error \in BOOLEAN : updatePost(p, error))
          /\ WF_vars(p \in PostIDs /\ Collect(p))
    /\ WF_vars(Finalize)
    /\ WF_vars(closeConnection)
    /\ WF_vars(ConnectionClosed)

FairSpec == Spec /\ Fairness

HandledFairSpec == Init /\ [][HandledNext]_vars /\ Fairness

\* ------------------------------------------- replaceResources on its own

\* how the migration of a resource ended: the upload succeeded, the download
\* failed with an error of the write stream, or the upload failed
Outcomes == {"success", "streamError", "uploadError"}

\* the orders in which n resources can settle
Orders(n) == { o \in [1..n -> 1..n] : \A i, j \in 1..n : o[i] = o[j] => i = j }

\* the result manageResource resolves with for a resource that ended `how`
SettledResult(p, resource, how) ==
    IF how = "success"
    THEN ResourceSuccess(resource, NewResource("http://cdn", p, resource))
    ELSE ResourceFailure(resource)

\* the stats and the updates of a post after the results res were handled by
\* Settle in the order o, from the i-th on
RECURSIVE SettledFrom(_, _, _, _)
SettledFrom(acc, res, o, i) ==
    IF i > Len(res) THEN acc
    ELSE SettledFrom([stats |-> CountOutcome(acc.stats, res[o[i]]),
                      updates |-> RecordUpdate(acc.updates, res[o[i]])],
                     res, o, i + 1)

\* The states in which replaceResources is about to be called for the one
\* post of a run: the post has one of the contents of RewriteContents and each
\* of its resources has settled, with any outcome and in any order.
RewriteInit ==
    /\ pc = "waiting" /\ exitCode = -1 /\ fatal = NoFatal
    /\ rackspaceCDNURL = "http://cdn"
    /\ rows \in [1..1 -> RewriteContents]
    /\ db = rows
    /\ resources = [p \in 1..1 |-> findResources(rows[p])]
    /\ rstate = [p \in 1..1 |-> [r \in 1..Len(resources[p]) |-> "settled"]]
    /\ \E how \in [1..Len(resources[1]) -> Outcomes], o \in Orders(Len(resources[1])) :
          LET res == [r \in 1..Len(resources[1]) |->
                         SettledResult(1, resources[1][r], how[r])]
              end == SettledFrom([stats |-> ZeroStats, updates |-> <<>>], res, o, 1)
          IN /\ result = <<res>>
             /\ stats = <<end.stats>>
             /\ updates = <<end.updates>>
             /\ calls = << [r \in 1..Len(resources[1]) |->
                               [request |-> 1,
                                addFile |-> IF how[r] = "streamError" THEN 0 ELSE 1]] >>
             /\ tmp = { LocalPath(1, resources[1][r]) : r \in 1..Len(resources[1]) }
                      \ { LocalPath(1, resources[1][r]) :
                             r \in { q \in 1..Len(resources[1]) : how[q] # "streamError" } }
    /\ pstate = <<"resources">>
    /\ resolved = <<Len(resources[1]) = 0>>
    /\ collected = <<FALSE>>
    /\ gstats = ZeroGlobal
    /\ finalStats = Pending
    /\ updateLog = << <<>> >>
    /\ destroyed = {}

RewriteNext == RewriteAndUpdate(1)

RewriteSpec == RewriteInit /\ [][RewriteNext]_vars

\* ------------------------------------------------------------------ claims

\* the new locations held in the updates map of post p
NewLocations(p) == { updates[p][i][2] : i \in 1..Len(updates[p]) }

\* C1: whenever updatePost failed for a post, a destroyFile request was issued
\* for every new location in that post's updates map, and for no object of a
\* post whose update did not fail.
C1_DeleteEveryUploaded ==
    /\ \A p \in PostIDs : pstate[p] = "rejected" => NewLocations(p) \subseteq destroyed
    /\ destroyed \subseteq UNION { NewLocations(p) : p \in { q \in PostIDs : pstate[q] = "rejected" } }

\* C2: once the posts are listed and dispatched, the run eventually resolves
\* with the global stats and exits with code 0, whatever fails.  Checked
\* under HandledFairSpec: it fails even when every download ends with an
\* event the program handles.
C2_RunCompletes ==
    (pc = "waiting") ~> (finalStats # Pending /\ pc = "exited" /\ exitCode = 0)

\* C3: for a post without resources updatePost is never called, and the stats
\* its promise is resolved with are {0, 0, 0}.
C3_NoResourcesNoUpdate ==
    \A p \in PostIDs :
        (pstate[p] # "new" /\ Len(resources[p]) = 0) =>
            /\ updateLog[p] = <<>>
            /\ resolved[p] /\ stats[p] = ZeroStats

\* the number of resources of post p whose migration succeeded
Succeeded(p) == Cardinality({ r \in DOMAIN result[p] : result[p][r] # Pending /\ result[p][r].success })

\* C4: when updatePost failed for a post whose migrations all succeeded, the
\* post's promise is resolved with its stats: found is the number of its
\* unique resources and processed the number of successful migrations.
C4_RejectedStillResolves ==
    \A p \in PostIDs :
        (pstate[p] = "rejected" /\ Len(resources[p]) > 0
            /\ Succeeded(p) = Len(resources[p])) =>
            /\ resolved[p]
            /\ stats[p].found = Len(resources[p])
            /\ stats[p].processed = Succeeded(p)

\* C5: in every state, for every post, processed + failed = found.
C5_StatsBalance ==
    \A p \in PostIDs : stats[p].processed + stats[p].failed = stats[p].found

\* a state in which a post has counted one failure and one success while
\* the other post still has migrations in flight
C5_Witness ==
    \E p, q \in PostIDs :
        /\ stats[p] = [found |-> 2, processed |-> 1, failed |-> 1]
        /\ \E r \in DOMAIN rstate[q] : rstate[q][r] = "uploading"
        /\ stats[q].found = 1

\* the element-wise sum of the stats of posts 1..n
RECURSIVE SumStats(_)
SumStats(n) ==
    IF n = 0 THEN ZeroGlobal
    ELSE [resourcesFound |-> SumStats(n - 1).resourcesFound + stats[n].found,
          resourcesProcessed |-> SumStats(n - 1).resourcesProcessed + stats[n].processed,
          resourcesFailed |-> SumStats(n - 1).resourcesFailed + stats[n].failed]

\* C6: the stats processPosts resolves with are the element-wise sum of the
\* stats of all posts, each post counted once.
C6_GlobalIsSum ==
    finalStats # Pending => finalStats = SumStats(Len(rows))

\* the run is finalized with a post that was resolved twice (no resources,
\* then updated) and a post that counted a failure and a success
C6_Witness ==
    /\ finalStats # Pending
    /\ \E p, q \in PostIDs :
        /\ Len(resources[p]) = 0 /\ pstate[p] = "updated"
        /\ stats[q] = [found |-> 2, processed |-> 1, failed |-> 1]

\* C7: when processPosts resolves with the global stats, every post has
\* settled: no download, upload or update of it is in flight or still to be
\* issued.
C7_AllSettledAtFinalize ==
    finalStats # Pending =>
        \A p \in PostIDs :
            /\ pstate[p] \in {"updated", "rejected"}
            /\ \A r \in DOMAIN rstate[p] : rstate[p][r] = "settled"

\* C8: when a step before processPosts fails, no post is ever processed, the
\* global stats are never computed and the process exits through handleError
\* with code 1.
C8_FatalAborts ==
    fatal # NoFatal =>
        /\ pc \in {"handleError", "exited"}
        /\ pc = "handleError" => (exitCode = -1 /\ ENABLED handleError)
        /\ pc = "exited" => exitCode = 1
        /\ \A p \in PostIDs :
              /\ pstate[p] = "new" /\ resources[p] = <<>> /\ rstate[p] = <<>>
              /\ updateLog[p] = <<>> /\ ~resolved[p] /\ ~collected[p]
        /\ destroyed = {} /\ db = rows
        /\ finalStats = Pending /\ gstats = ZeroGlobal

\* listing the posts failed with rows in the table, and the process exited
C8_Witness ==
    /\ fatal = "getAllPosts" /\ Len(rows) > 0
    /\ pc = "exited" /\ exitCode = 1

\* content s from position i on, with every match of rResource that is the
\* resource `old` replaced by `new` and every other match and all other text
\* left as they are
RECURSIVE RewriteMatches(_, _, _, _)
RewriteMatches(s, i, old, new) ==
    IF i > Len(s) THEN <<>>
    ELSE IF s[i] = Host /\ i + 1 <= Len(s) /\ s[i + 1] \in Paths
         THEN (IF SubSeq(s, i, i + 1) = old THEN new ELSE SubSeq(s, i, i + 1))
              \o RewriteMatches(s, i + 2, old, new)
    ELSE IF s[i] \in Paths
         THEN (IF SubSeq(s, i, i) = old THEN new ELSE SubSeq(s, i, i))
              \o RewriteMatches(s, i + 1, old, new)
    ELSE <<s[i]>> \o RewriteMatches(s, i + 1, old, new)

\* post p has two resources, both settled, exactly one of them successfully
OneOfTwoFailed(p) ==
    /\ Len(resources[p]) = 2
    /\ \A r \in DOMAIN rstate[p] : rstate[p][r] = "settled"
    /\ Succeeded(p) = 1

\* C9: for a post with two resources of which one failed and one succeeded,
\* updatePost is called with the content in which every occurrence of the
\* succeeded resource is replaced by its new location and every occurrence of
\* the failed resource is as in the original; the post's stats are {2, 1, 1}.
C9_PartialFailurePersisted ==
    \A p \in PostIDs :
        (OneOfTwoFailed(p) /\ pstate[p] \notin {"new", "resources"}) =>
            LET ok == CHOOSE r \in DOMAIN result[p] : result[p][r].success
            IN /\ updateLog[p] = << RewriteMatches(rows[p], 1,
                                        result[p][ok].oldResource,
                                        result[p][ok].newResource) >>
               /\ stats[p] = [found |-> 2, processed |-> 1, failed |-> 1]

\* C10: every migration that was started eventually yields one result, the
\* failure value or the success value, and is never left pending.
C10_EveryMigrationSettles ==
    \A p \in 1..NumPosts : \A r \in ResourceSlots :
        (p \in PostIDs /\ r \in DOMAIN rstate[p] /\ rstate[p][r] = "downloading")
        ~> (/\ p \in PostIDs /\ r \in DOMAIN rstate[p]
            /\ rstate[p][r] = "settled"
            /\ result[p][r] \in
                 { ResourceFailure(resources[p][r]),
                   ResourceSuccess(resources[p][r],
                       NewResource(rackspaceCDNURL, p, resources[p][r])) })

\* C11: replaceResources and updatePost run for a post only after every one
\* of its resources has settled and its result has been counted in the post's
\* stats and, on success, entered in updates; and updates does not change
\* after replaceResources has read it: the content passed to updatePost is
\* the rewrite of the row by updates as it is now.
C11_RewriteAfterAllOutcomes ==
    \A p \in PostIDs :
        pstate[p] \in {"updating", "updated", "rejected"} =>
            /\ \A r \in DOMAIN rstate[p] : rstate[p][r] = "settled"
            /\ stats[p].found = Len(resources[p])
            /\ Len(updates[p]) = Succeeded(p)
            /\ updateLog[p] = << replaceResources(rows[p], updates[p]) >>

\* updatePost is in flight for a post whose two resources settled, one of
\* them with a failure
C11_Witness ==
    \E p \in PostIDs :
        /\ pstate[p] = "updating" /\ Len(resources[p]) = 2
        /\ stats[p] = [found |-> 2, processed |-> 1, failed |-> 1]

\* C12: updates has an entry for a resource only if the migration of that
\* resource settled with success, the entry's value being the location its
\* upload resolved with; and when the rewrite has started, updates has
\* exactly one entry for each resource that succeeded and no other.
C12_UpdatesAreSucceeded ==
    \A p \in PostIDs :
        /\ \A i \in DOMAIN updates[p] :
              \E r \in DOMAIN result[p] :
                  /\ rstate[p][r] = "settled"
                  /\ result[p][r] = ResourceSuccess(resources[p][r],
                                        NewResource(rackspaceCDNURL, p, resources[p][r]))
                  /\ updates[p][i] = <<resources[p][r], result[p][r].newResource>>
        /\ pstate[p] \in {"updating", "updated", "rejected"} =>
              /\ { updates[p][i][1] : i \in DOMAIN updates[p] }
                  = { resources[p][r] : r \in { q \in DOMAIN result[p] : result[p][q].success } }
              /\ Len(updates[p]) = Succeeded(p)

\* a post was updated with one of its two resources in updates, the other
\* having failed, and another post with both of its resources in updates
C12_Witness ==
    \E p, q \in PostIDs :
        /\ pstate[p] = "updated" /\ Len(resources[p]) = 2 /\ Len(updates[p]) = 1
        /\ pstate[q] = "updated" /\ Len(updates[q]) = 2

\* the value updates has for key k, <<>> when it has none
Lookup(upd, k) ==
    IF \E i \in DOMAIN upd : upd[i][1] = k
    THEN << upd[CHOOSE i \in DOMAIN upd : upd[i][1] = k][2] >>
    ELSE <<>>

\* content s from position i on, with every match of rResource that is a key
\* of upd replaced by the value of that key, and every other match and all
\* other text left as they are
RECURSIVE SubstituteMatches(_, _, _)
SubstituteMatches(s, i, upd) ==
    IF i > Len(s) THEN <<>>
    ELSE LET n == IF s[i] = Host /\ i + 1 <= Len(s) /\ s[i + 1] \in Paths THEN 2
                  ELSE IF s[i] \in Paths THEN 1 ELSE 0
             m == SubSeq(s, i, i + n - 1)
         IN  IF n = 0 THEN <<s[i]>> \o SubstituteMatches(s, i + 1, upd)
             ELSE (IF Lookup(upd, m) = <<>> THEN m ELSE Lookup(upd, m)[1])
                  \o SubstituteMatches(s, i + n, upd)

\* C13: the content replaceResources returns is the original content with
\* each occurrence of each resource that is a key of updates replaced by the
\* value of that key: no text put in for one key, and no part of another
\* resource, is replaced as an occurrence of a different key.
C13_NoCrossSubstitution ==
    \A p \in PostIDs :
        pstate[p] \in {"updating", "updated", "rejected"} =>
            updateLog[p] = << SubstituteMatches(rows[p], 1, updates[p]) >>

\* the number of occurrences of sub in s, counted from the left without
\* overlap
RECURSIVE Occurrences(_, _)
Occurrences(s, sub) ==
    LET i == IndexOf(s, sub)
    IN IF i = 0 THEN 0
       ELSE 1 + Occurrences(SubSeq(s, i + Len(sub), Len(s)), sub)

\* s with every occurrence of old replaced by the text new
RECURSIVE SubstituteAll(_, _, _)
SubstituteAll(s, old, new) ==
    LET i == IndexOf(s, old)
    IN IF i = 0 THEN s
       ELSE SubSeq(s, 1, i - 1) \o new
            \o SubstituteAll(SubSeq(s, i + Len(old), Len(s)), old, new)

\* C14: when updates has the one key R, with a value R2 in which R does not
\* occur, the content replaceResources returns has no occurrence of R, has
\* R2 as often as the original content had R, and is the original content
\* otherwise.
C14_SingleKeyAllReplaced ==
    \A p \in PostIDs :
        (/\ pstate[p] = "updating" /\ Len(updates[p]) = 1
         /\ IndexOf(updates[p][1][2], updates[p][1][1]) = 0) =>
            LET R == updates[p][1][1]
                R2 == updates[p][1][2]
                out == updateLog[p][1]
            IN /\ Occurrences(out, R) = 0
               /\ Occurrences(out, R2) = Occurrences(rows[p], R)
               /\ out = SubstituteAll(rows[p], R, R2)

\* C18: with no key in updates, replaceResources returns the content it was
\* given, whatever the content is.
C18_EmptyUpdatesIdentity ==
    \A p \in PostIDs :
        (pstate[p] = "updating" /\ updates[p] = <<>>) => updateLog[p] = << rows[p] >>

\* replaceResources has returned for a post with three resources, none of
\* which was migrated
C18_Witness ==
    \E p \in PostIDs :
        /\ pstate[p] = "updating" /\ updates[p] = <<>>
        /\ Len(resources[p]) = 3 /\ stats[p].failed = 3

\* C15: a post has exactly one migration for each of its resources, however
\* often the resource occurs in the content: one request is made for it, at
\* most one addFile call, none again after a failure, and the addFile call
\* only after its download ended with the file saved.
C15_OneMigrationPerResource ==
    \A p \in PostIDs :
        pstate[p] # "new" =>
            /\ \A r, q \in DOMAIN resources[p] :
                  resources[p][r] = resources[p][q] => r = q
            /\ LET matches == MatchFrom(rows[p], 1)
               IN { resources[p][r] : r \in DOMAIN resources[p] }
                    = { matches[i] : i \in DOMAIN matches }
            /\ DOMAIN calls[p] = DOMAIN resources[p]
            /\ \A r \in DOMAIN calls[p] :
                  /\ calls[p][r].request = 1
                  /\ calls[p][r].addFile <= 1
                  /\ rstate[p][r] = "downloading" => calls[p][r].addFile = 0
                  /\ rstate[p][r] = "uploading" => calls[p][r].addFile = 1
                  /\ (rstate[p][r] = "settled" /\ result[p][r].success)
                        => calls[p][r].addFile = 1

\* a post whose content has a resource twice was updated after the one
\* upload of that resource failed
C15_Witness ==
    \E p \in PostIDs :
        /\ Len(MatchFrom(rows[p], 1)) = 2 /\ Len(resources[p]) = 1
        /\ pstate[p] = "updated"
        /\ ~result[p][1].success /\ calls[p][1] = [request |-> 1, addFile |-> 1]

\* C16: once the migration of a resource has settled, the local file of that
\* resource is not in /tmp any more, whether the download failed, the upload
\* failed or the upload succeeded.
C16_TempFileReleased ==
    \A p \in PostIDs : \A r \in DOMAIN rstate[p] :
        rstate[p][r] = "settled" => LocalPath(p, resources[p][r]) \notin tmp

\* C17: the migrations of resources of two different posts never have the
\* same local path or the same remote name, also when the two resources have
\* the same file name.
C17_NamesDifferAcrossPosts ==
    LET paths == [p \in PostIDs |->
                    { LocalPath(p, resources[p][r]) : r \in DOMAIN resources[p] }]
        names == [p \in PostIDs |->
                    { RemoteName(p, resources[p][r]) : r \in DOMAIN resources[p] }]
    IN \A p, q \in PostIDs :
           p < q => (paths[p] \cap paths[q] = {} /\ names[p] \cap names[q] = {})

\* two posts are uploading the same resource at the same time
C17_Witness ==
    \E p, q \in PostIDs :
        /\ p # q
        /\ \E r \in DOMAIN resources[p], s \in DOMAIN resources[q] :
              /\ resources[p][r] = resources[q][s]
              /\ rstate[p][r] = "uploading" /\ rstate[q][s] = "uploading"
              /\ calls[p][r].addFile = 1 /\ calls[q][s].addFile = 1

\* C19: when the promise of a post is resolved with the post's stats, every
\* resource of the post has settled and been counted: found is the number of
\* the distinct resources that were found in the content and dispatched.
C19_StatsCompleteWhenResolved ==
    \A p \in PostIDs :
        resolved[p] =>
            /\ \A r \in DOMAIN rstate[p] : rstate[p][r] = "settled"
            /\ stats[p].found = Len(resources[p])
            /\ LET matches == MatchFrom(rows[p], 1)
               IN stats[p].found = Cardinality({ matches[i] : i \in DOMAIN matches })
            /\ stats[p].processed = Succeeded(p)

\* the promise of a post with two resources is resolved and the handler of
\* processPosts has not added its stats yet
C19_Witness ==
    \E p \in PostIDs :
        /\ resolved[p] /\ ~collected[p]
        /\ Len(resources[p]) = 2 /\ stats[p].found = 2

\* C20: two different resources of one post that are being migrated at the
\* same time never have the same local path or the same remote name.
C20_NamesDifferWithinPost ==
    \A p \in PostIDs : \A r, s \in DOMAIN resources[p] :
        (/\ r # s
         /\ rstate[p][r] \in {"downloading", "uploading"}
         /\ rstate[p][s] \in {"downloading", "uploading"}) =>
            /\ LocalPath(p, resources[p][r]) # LocalPath(p, resources[p][s])
            /\ RemoteName(p, resources[p][r]) # RemoteName(p, resources[p][s])

\* the sequences that have the entries of upd, each once, in any order
Reorderings(upd) ==
    { [i \in DOMAIN upd |-> upd[o[i]]] : o \in Orders(Len(upd)) }

\* C21: the content passed to updatePost for a post depends on the post's
\* original content and on the set of the entries of updates only, not on the
\* order in which the migrations settled and entered them: replaceResources
\* returns the same content for the entries in any other order.
C21_OrderIndependent ==
    \A p \in PostIDs :
        pstate[p] \in {"updating", "updated", "rejected"} =>
            \A other \in Reorderings(updates[p]) :
                updateLog[p] = << replaceResources(rows[p], other) >>

\* the rest of the run of one post whose resources have settled: the rewrite,
\* the UPDATE query and the end of the process
RewriteRunNext ==
    \/ RewriteAndUpdate(1)
    \/ \E error \in BOOLEAN : updatePost(1, error)
    \/ Collect(1)
    \/ Finalize
    \/ closeConnection
    \/ ConnectionClosed

\* that rest of the run, every pending callback and handler being called
RewriteFairSpec == RewriteInit /\ [][RewriteRunNext]_vars /\ Fairness

\* C22: replaceResources returns for every content and every updates map:
\* once the resources of a post have settled, updatePost is called with the
\* rewritten content.
C22_ReplaceResourcesReturns ==
    (pstate[1] = "resources") ~> (pstate[1] = "updating" /\ Len(updateLog[1]) = 1)

==============================================================================
